---------------------------- MODULE Spec2Model ----------------------------
(***************************************************************************)
(* A model of the asynchronous image reader (src/src/io/async_reader.rs)   *)
(* and of the bit-depth expansion utilities (src/src/utils/mod.rs).        *)
(*                                                                         *)
(* Spec      the AsyncReader state machine: one reader, its byte source,   *)
(*           and every public operation on it.                             *)
(* SpecBits  expand_bits applied to bounded inputs, under both settings of *)
(*           the build's integer-overflow checks.                          *)
(* SpecPacked  expand_packed run one loop iteration at a time over bounded *)
(*           buffers, with a callback that writes what it likes.           *)
(* SpecDims  check_dimension_overflow applied to widths and heights around *)
(*           the 64-bit boundary, in byte-limb arithmetic.                 *)
(***************************************************************************)
EXTENDS Integers, Sequences, FiniteSets, TLC

VARIABLES
    inner_data,     \* AsyncReader.inner: the bytes of the underlying stream
    inner_pos,      \* AsyncReader.inner: the stream's read position
    format,         \* AsyncReader.format: "None" or the name of an ImageFormat
    limits,         \* AsyncReader.limits
    pc,             \* where the reader is: held by the caller, inside
                    \* with_guessed_format, or moved away for good
    cur,            \* guess_format: let cur
    start,          \* guess_format: the bytes read into start
    len,            \* guess_format: let len
    pre,            \* history: the reader as it was when the running (or last)
                    \* operation was called
    last,           \* history: the last operation and what it returned
    decoderCall,    \* history: the decoder entry point invoked, with its arguments
    ioDone,         \* history: the running (or last) operation touched the source
    unlimitedAsked, \* history: no_limits() or limits(unlimited) was called
    consumed,       \* history: consuming operations executed so far (capped)
    usedAfter,      \* history: an operation ran after a consuming operation
    chain,          \* history: successful with_guessed_format calls in a row
    bit_depth,      \* expand_bits: the argument bit_depth
    row_size,       \* expand_bits: the argument row_size
    buf,            \* expand_bits: the argument buf
    overflow_checks,\* the build: integer overflow panics (debug) or wraps (release)
    eb_ret,         \* expand_bits: not yet called, returned p, or panicked
    packed,         \* expand_packed: the argument buf, expanded in place
    channels,       \* expand_packed: the argument channels
    packed_depth,   \* expand_packed: the argument bit_depth
    ep_pc,          \* expand_packed: in its loop, returned, or panicked
    packed0,        \* history: buf as it was when expand_packed was called
    calls,          \* history: the invocations of func, in order
    width,          \* check_dimension_overflow: the argument width (4 byte limbs)
    height,         \* check_dimension_overflow: the argument height (4 byte limbs)
    bytes_per_pixel,\* check_dimension_overflow: the argument bytes_per_pixel
    cdo_ret         \* check_dimension_overflow: not yet called, returned, or panicked

readerVars == <<inner_data, inner_pos, format, limits, pc, cur, start, len, pre, last,
                decoderCall, ioDone, unlimitedAsked, consumed, usedAfter, chain>>

bitsVars == <<bit_depth, row_size, buf, overflow_checks, eb_ret>>

packedVars == <<packed, channels, packed_depth, ep_pc, packed0, calls>>

dimsVars == <<width, height, bytes_per_pixel, cdo_ret>>

\* The state of the utilities, which no reader operation touches.
utilVars == <<bitsVars, packedVars, dimsVars>>

vars == <<readerVars, utilVars>>

-----------------------------------------------------------------------------
(* Bounds of the model. *)

\* Zero bytes in front of a signature, so that a sniff may start past offset 0.
LeadPad == 4
\* Zero bytes after a signature, so that a full 16-byte read is possible.
TailPad == 16
\* The longest packed buffer handed to expand_bits, in bytes.
MaxBufLen == 4
\* The largest ordinary row_size handed to expand_bits.
MaxRowSize == 10
\* The longest buffer handed to expand_packed, in bytes.
MaxPackedLen == 4
\* The largest number of channels handed to expand_packed.
MaxChannels == 3

-----------------------------------------------------------------------------
(* The collaborators the reader is written against. *)

\* let mut start = [0u8; 16]
SniffLen == 16

Formats == {"Png", "Jpeg", "Bmp"}

\* Option<ImageFormat>
OptFormats == Formats \cup {"None"}

\* Limits::default(): conservative, bounded.
LimitsDefault == "default"

\* Limits::no_limits(): every check disabled.
LimitsNoLimits == "no_limits"

\* The Limits values a caller can hand to limits().
LimitValues == {LimitsDefault, LimitsNoLimits, "strict"}

\* The signature table of the format registry, most specific first.
MAGIC_BYTES ==
    << [signature |-> <<137, 80, 78, 71, 13, 10, 26, 10>>, format |-> "Png"],
       [signature |-> <<255, 216, 255>>,                   format |-> "Jpeg"],
       [signature |-> <<66, 77>>,                          format |-> "Bmp"] >>

\* buffer.starts_with(signature)
starts_with(buffer, signature) ==
    /\ Len(buffer) >= Len(signature)
    /\ SubSeq(buffer, 1, Len(signature)) = signature

\* free_functions::guess_format_impl: the format of the first signature the
\* buffer starts with, None when there is none.
guess_format_impl(buffer) ==
    LET hits == {i \in 1..Len(MAGIC_BYTES) : starts_with(buffer, MAGIC_BYTES[i].signature)}
    IN  IF hits = {} THEN "None"
        ELSE MAGIC_BYTES[CHOOSE i \in hits : \A j \in hits : i <= j].format

\* ImageFormat::from_path(path).ok()
from_path(path) ==
    CASE path = "image.png" -> "Png"
      [] path = "image.jpg" -> "Jpeg"
      [] OTHER              -> "None"

Paths == {"image.png", "image.jpg", "image.unknown"}

\* What a per-format decoder may answer.
DecoderOutcomes == {"Ok", "DecodingError", "LimitsError"}

Zeros(n) == [i \in 1..n |-> 0]

\* The streams a reader is bound to.
Streams ==
    { lead \o sig \o tail :
        lead \in {<< >>, Zeros(LeadPad)},
        sig  \in {<< >>} \cup {MAGIC_BYTES[i].signature : i \in 1..Len(MAGIC_BYTES)},
        tail \in {<< >>, Zeros(TailPad)} }

-----------------------------------------------------------------------------
(* Constructors: the reader each one builds. *)

\* A reader built with the limits switched off.
new_unlimited(buffered_reader) ==
    [inner |-> buffered_reader, format |-> "None", limits |-> LimitsNoLimits]

\* AsyncReader::new
new(buffered_reader) ==
    [inner |-> buffered_reader, format |-> "None", limits |-> LimitsDefault]

\* AsyncReader::with_format
with_format(buffered_reader, fmt) ==
    [inner |-> buffered_reader, format |-> fmt, limits |-> LimitsDefault]

\* AsyncReader::open_impl: a freshly opened file is read from its start.
open_impl(file, path) ==
    [inner |-> [data |-> file, pos |-> 0], format |-> from_path(path),
     limits |-> LimitsDefault]

\* A source is handed over at any read position of its stream.
Sources == UNION {{[data |-> d, pos |-> p] : p \in 0..Len(d)} : d \in Streams}

Constructed ==
    {new(s) : s \in Sources}
        \cup {with_format(s, f) : s \in Sources, f \in Formats}
        \cup {open_impl(d, p) : d \in Streams, p \in Paths}

NoCall == [fn |-> "none", format |-> "None", limits |-> "not passed", pos |-> 0, ret |-> "none"]

Snapshot == [pos |-> inner_pos, format |-> format, limits |-> limits]

NoChain == [n |-> 0, pos0 |-> 0, fmt1 |-> "None"]

ReaderInit ==
    /\ \E r \in Constructed :
          /\ inner_data = r.inner.data
          /\ inner_pos = r.inner.pos
          /\ format = r.format
          /\ limits = r.limits
          /\ pre = [pos |-> r.inner.pos, format |-> r.format, limits |-> r.limits]
    /\ pc = "idle"
    /\ cur = 0
    /\ start = << >>
    /\ len = 0
    /\ last = [op |-> "construct", res |-> "Ok", at |-> "none"]
    /\ decoderCall = NoCall
    /\ ioDone = FALSE
    /\ unlimitedAsked = FALSE
    /\ consumed = 0
    /\ usedAfter = FALSE
    /\ chain = NoChain


-----------------------------------------------------------------------------
(* Bookkeeping shared by the operations. *)

Min(a, b) == IF a < b THEN a ELSE b

\* A caller invokes an operation on the reader it holds.
Called ==
    /\ pc = "idle"
    /\ pre' = Snapshot
    /\ usedAfter' = (usedAfter \/ consumed > 0)

\* The operation does not go through guess_format.
NoSniff ==
    /\ UNCHANGED <<cur, start, len>>
    /\ chain' = NoChain

Returned(op, res, at) == last' = [op |-> op, res |-> res, at |-> at]

-----------------------------------------------------------------------------
(* Accessors and mutators: no I/O, the reader stays with the caller. *)

\* AsyncReader::format
Format ==
    /\ Called
    /\ NoSniff
    /\ Returned("format", format, "none")
    /\ ioDone' = FALSE
    /\ decoderCall' = NoCall
    /\ UNCHANGED <<inner_data, inner_pos, format, limits, pc, unlimitedAsked, consumed>>
    /\ UNCHANGED utilVars

\* set_format rebuilding the reader, default limits included.
SetFormatResetsLimits ==
    /\ Called
    /\ NoSniff
    /\ \E f \in Formats : format' = f
    /\ limits' = LimitsDefault
    /\ Returned("set_format", "Ok", "none")
    /\ ioDone' = FALSE
    /\ decoderCall' = NoCall
    /\ UNCHANGED <<inner_data, inner_pos, pc, unlimitedAsked, consumed>>
    /\ UNCHANGED utilVars

\* AsyncReader::set_format
SetFormat ==
    /\ Called
    /\ NoSniff
    /\ \E f \in Formats : format' = f
    /\ Returned("set_format", "Ok", "none")
    /\ ioDone' = FALSE
    /\ decoderCall' = NoCall
    /\ UNCHANGED <<inner_data, inner_pos, limits, pc, unlimitedAsked, consumed>>
    /\ UNCHANGED utilVars

\* AsyncReader::clear_format
ClearFormat ==
    /\ Called
    /\ NoSniff
    /\ format' = "None"
    /\ Returned("clear_format", "Ok", "none")
    /\ ioDone' = FALSE
    /\ decoderCall' = NoCall
    /\ UNCHANGED <<inner_data, inner_pos, limits, pc, unlimitedAsked, consumed>>
    /\ UNCHANGED utilVars

\* AsyncReader::no_limits
NoLimits ==
    /\ Called
    /\ NoSniff
    /\ limits' = LimitsNoLimits
    /\ unlimitedAsked' = TRUE
    /\ Returned("no_limits", "Ok", "none")
    /\ ioDone' = FALSE
    /\ decoderCall' = NoCall
    /\ UNCHANGED <<inner_data, inner_pos, format, pc, consumed>>
    /\ UNCHANGED utilVars

\* AsyncReader::limits
Limits ==
    /\ Called
    /\ NoSniff
    /\ \E l \in LimitValues :
          /\ limits' = l
          /\ unlimitedAsked' = (unlimitedAsked \/ l = LimitsNoLimits)
    /\ Returned("limits", "Ok", "none")
    /\ ioDone' = FALSE
    /\ decoderCall' = NoCall
    /\ UNCHANGED <<inner_data, inner_pos, format, pc, consumed>>
    /\ UNCHANGED utilVars

\* into_inner written against &self: the caller keeps the reader.
IntoInnerBorrowed ==
    /\ Called
    /\ NoSniff
    /\ consumed' = Min(consumed + 1, 2)
    /\ Returned("into_inner", "Ok", "none")
    /\ ioDone' = FALSE
    /\ decoderCall' = NoCall
    /\ UNCHANGED <<inner_data, inner_pos, format, limits, pc, unlimitedAsked>>
    /\ UNCHANGED utilVars

\* AsyncReader::into_inner: takes self, the reader is moved away.
IntoInner ==
    /\ Called
    /\ NoSniff
    /\ pc' = "gone"
    /\ consumed' = Min(consumed + 1, 2)
    /\ Returned("into_inner", "Ok", "none")
    /\ ioDone' = FALSE
    /\ decoderCall' = NoCall
    /\ UNCHANGED <<inner_data, inner_pos, format, limits, unlimitedAsked>>
    /\ UNCHANGED utilVars

-----------------------------------------------------------------------------
(* with_guessed_format: takes self; the reader comes back only with Ok.    *)
(* guess_format suspends at each of its three awaits, so each is a step.   *)

\* The saved offset applied as SeekFrom::Current.
SeekFromCurrent(offset) == inner_pos + offset

\* A rewind to the start of the stream instead of to the saved offset.
SeekToStreamStart(offset) == 0

\* self.inner.seek(io::SeekFrom::Start(cur)): the position the stream is left at.
SeekFromStart(offset) == offset

\* The guess stored as it is, a failed guess included.
GuessedFormatOverwrites(guess, current) == guess

\* format.or(self.format): replace the format if found, keep the current one if not.
GuessedFormat(guess, current) == IF guess # "None" THEN guess ELSE current

\* The sniff is over: guess_format's locals are gone.
SniffOver == cur' = 0 /\ start' = << >> /\ len' = 0

\* with_guessed_format returns Err: the reader was moved in and is not handed back.
SniffFailed(at) ==
    /\ pc' = "gone"
    /\ Returned("with_guessed_format", "IoError", at)
    /\ SniffOver
    /\ chain' = NoChain

\* AsyncReader::with_guessed_format is called and runs up to its first await.
WithGuessedFormat ==
    /\ Called
    /\ pc' = "seek_cur"
    /\ Returned("with_guessed_format", "pending", "none")
    /\ ioDone' = FALSE
    /\ decoderCall' = NoCall
    /\ UNCHANGED <<inner_data, inner_pos, format, limits, cur, start, len,
                   unlimitedAsked, consumed, chain>>
    /\ UNCHANGED utilVars

\* let cur = self.inner.seek(SeekFrom::Current(0)).await?
GuessSeekCur ==
    /\ pc = "seek_cur"
    /\ ioDone' = TRUE
    /\ \/ /\ cur' = inner_pos
          /\ pc' = "read_exact"
          /\ UNCHANGED <<start, len, last, chain>>
       \/ SniffFailed("seek_cur")
    /\ UNCHANGED <<inner_data, inner_pos, format, limits, pre, decoderCall,
                   unlimitedAsked, consumed, usedAfter>>
    /\ UNCHANGED utilVars

\* let len = self.inner.read_exact(&mut start).await? as u64
\* read_exact fills the whole buffer or fails: with UnexpectedEof when the
\* stream ends first, with the source's error when a read fails.
GuessReadExact ==
    /\ pc = "read_exact"
    /\ ioDone' = TRUE
    /\ \/ /\ Len(inner_data) - inner_pos >= SniffLen
          /\ start' = SubSeq(inner_data, inner_pos + 1, inner_pos + SniffLen)
          /\ len' = SniffLen
          /\ inner_pos' = inner_pos + SniffLen
          /\ pc' = "seek_back"
          /\ UNCHANGED <<cur, last, chain>>
       \/ /\ Len(inner_data) - inner_pos < SniffLen
          /\ inner_pos' = Len(inner_data)
          /\ SniffFailed("read_exact:UnexpectedEof")
       \/ /\ \E n \in 0..Min(SniffLen, Len(inner_data) - inner_pos) :
                inner_pos' = inner_pos + n
          /\ SniffFailed("read_exact:io")
    /\ UNCHANGED <<inner_data, format, limits, pre, decoderCall,
                   unlimitedAsked, consumed, usedAfter>>
    /\ UNCHANGED utilVars

\* The guess stored in the reader before the seek back, and kept when it fails.
GuessSeekBackAfterAssign ==
    /\ pc = "seek_back"
    /\ ioDone' = TRUE
    /\ format' = GuessedFormat(guess_format_impl(SubSeq(start, 1, len)), format)
    /\ \/ /\ inner_pos' = SeekFromStart(cur)
          /\ pc' = "idle"
          /\ Returned("with_guessed_format", "Ok", "none")
          /\ SniffOver
          /\ chain' = IF chain.n = 0
                      THEN [n |-> 1, pos0 |-> pre.pos, fmt1 |-> format']
                      ELSE [chain EXCEPT !.n = 2]
       \/ /\ SniffFailed("seek_back")
          /\ UNCHANGED inner_pos
    /\ UNCHANGED <<inner_data, limits, pre, decoderCall, unlimitedAsked, consumed,
                   usedAfter>>
    /\ UNCHANGED utilVars

\* self.inner.seek(io::SeekFrom::Start(cur)).await?, then without another await
\* Ok(guess_format_impl(&start[..len])), self.format = format.or(self.format), Ok(self)
GuessSeekBack ==
    /\ pc = "seek_back"
    /\ ioDone' = TRUE
    /\ \/ /\ inner_pos' = SeekFromStart(cur)
          /\ format' = GuessedFormat(guess_format_impl(SubSeq(start, 1, len)), format)
          /\ pc' = "idle"
          /\ Returned("with_guessed_format", "Ok", "none")
          /\ SniffOver
          /\ chain' = IF chain.n = 0
                      THEN [n |-> 1, pos0 |-> pre.pos, fmt1 |-> format']
                      ELSE [chain EXCEPT !.n = 2]
       \/ /\ SniffFailed("seek_back")
          /\ UNCHANGED <<inner_pos, format>>
    /\ UNCHANGED <<inner_data, limits, pre, decoderCall, unlimitedAsked, consumed,
                   usedAfter>>
    /\ UNCHANGED utilVars

\* The awaits of guess_format, where the future of with_guessed_format can be
\* dropped.
SuspensionPoints == {"seek_cur", "read_exact", "seek_back"}

\* Cancellation with the reader only borrowed by the future: the caller keeps it.
CancelGuessBorrowed ==
    /\ pc \in SuspensionPoints
    /\ pc' = "idle"
    /\ Returned("with_guessed_format", "cancelled", pc)
    /\ SniffOver
    /\ chain' = NoChain
    /\ UNCHANGED <<inner_data, inner_pos, format, limits, pre, decoderCall, ioDone,
                   unlimitedAsked, consumed, usedAfter>>
    /\ UNCHANGED utilVars

\* The caller drops the future of with_guessed_format at an await.  The future
\* owns the reader (mut self), so the reader and guess_format's locals are
\* dropped with it.
CancelGuess ==
    /\ pc \in SuspensionPoints
    /\ pc' = "gone"
    /\ Returned("with_guessed_format", "cancelled", pc)
    /\ SniffOver
    /\ chain' = NoChain
    /\ UNCHANGED <<inner_data, inner_pos, format, limits, pre, decoderCall, ioDone,
                   unlimitedAsked, consumed, usedAfter>>
    /\ UNCHANGED utilVars

-----------------------------------------------------------------------------
(* The terminal operations: both take self. *)

\* A missing format defaulted instead of refused.
require_format_or_default(fmt) ==
    [ok |-> TRUE, format |-> IF fmt # "None" THEN fmt ELSE "Png", hint |-> "none"]

\* AsyncReader::require_format
require_format(fmt) ==
    IF fmt # "None"
    THEN [ok |-> TRUE,  format |-> fmt,    hint |-> "none"]
    ELSE [ok |-> FALSE, format |-> "None", hint |-> "Unknown"]

\* A terminal operation: require_format(), then the decoder entry point fn with
\* the arguments the call site passes; the decoder's answer is the answer.
Terminal(op, fn, passed_limits) ==
    /\ NoSniff
    /\ pc' = "gone"
    /\ consumed' = Min(consumed + 1, 2)
    /\ ioDone' = FALSE
    /\ LET rf == require_format(format)
       IN  IF rf.ok
           THEN \E ret \in DecoderOutcomes :
                   /\ decoderCall' = [fn |-> fn, format |-> rf.format,
                                      limits |-> passed_limits, pos |-> inner_pos,
                                      ret |-> ret]
                   /\ Returned(op, ret, "none")
           ELSE /\ decoderCall' = NoCall
                /\ Returned(op, "Unsupported", rf.hint)
    /\ UNCHANGED <<inner_data, inner_pos, format, limits, unlimitedAsked>>

\* AsyncReader::into_dimensions:
\* free_functions::image_dimensions_with_format_impl_async(self.inner, format)
IntoDimensions ==
    /\ Called
    /\ Terminal("into_dimensions", "image_dimensions_with_format_impl_async",
                "not passed")
    /\ UNCHANGED utilVars

\* AsyncReader::decode: free_functions::load_inner(self.inner, self.limits, format)
Decode ==
    /\ Called
    /\ Terminal("decode", "load_inner", limits)
    /\ UNCHANGED utilVars

-----------------------------------------------------------------------------
(* Machine integers.  u32 values are kept below 2^31 by the bounds; products *)
(* and sums are split into 16-bit halves so that overflow past 2^32 is seen. *)

U16 == 2^16

\* floor(a * b / 2^16)
MulHigh(a, b) == ((a \div U16) * b) + (((a % U16) * b) \div U16)

\* a * b does not fit in a u32
MulOverflowsU32(a, b) == MulHigh(a, b) >= U16

\* a.wrapping_mul(b) on u32
WrappingMulU32(a, b) == ((MulHigh(a, b) % U16) * U16) + (((a % U16) * b) % U16)

\* floor((a + b) / 2^16)
AddHigh(a, b) == (a \div U16) + (b \div U16) + (((a % U16) + (b % U16)) \div U16)

\* a + b does not fit in a u32
AddOverflowsU32(a, b) == AddHigh(a, b) >= U16

\* a.wrapping_add(b) on u32
WrappingAddU32(a, b) == ((AddHigh(a, b) % U16) * U16) + (((a % U16) + (b % U16)) % U16)

RECURSIVE BitAnd(_, _)
\* a & b
BitAnd(a, b) ==
    IF a = 0 \/ b = 0 THEN 0
    ELSE ((a % 2) * (b % 2)) + (2 * BitAnd(a \div 2, b \div 2))

\* a << n on u8: the bits shifted past bit 7 are lost
ShlU8(a, n) == (a * 2^n) % 256

\* a >> n
Shr(a, n) == a \div 2^n

-----------------------------------------------------------------------------
(* expand_bits (src/src/utils/mod.rs). *)

\* let mask = (1u8 << bit_depth as usize) - 1
mask(bd) == ShlU8(1, bd) - 1

\* let scaling_factor = 255 / ((1 << bit_depth as usize) - 1)
scaling_factor(bd) == 255 \div (ShlU8(1, bd) - 1)

\* The used bits of the last byte taken for the padding.
skip_used_bits(bit_width, bd) ==
    IF bit_width % 8 = 0 THEN 0 ELSE (bit_width % 8) \div bd

\* The padding counted in bits, not in samples.
skip_in_bits(bit_width, bd) ==
    IF bit_width % 8 = 0 THEN 0 ELSE 8 - (bit_width % 8)

\* let skip = if bit_width % 8 == 0 { 0 } else { (8 - bit_width % 8) / bit_depth }
skip(bit_width, bd) ==
    IF bit_width % 8 = 0 THEN 0 ELSE (8 - (bit_width % 8)) \div bd

\* num_iter::range_step_inclusive(8i8 - bit_depth, 0, -bit_depth)
Shifts(bd) == [k \in 1..(8 \div bd) |-> 8 - (k * bd)]

\* let pixel = (v & mask << shift as usize) >> shift as usize
pixel(v, bd, shift) == Shr(BitAnd(v, ShlU8(mask(bd), shift)), shift)

RECURSIVE ForShift(_, _, _, _, _, _)
\* for shift in ...: the state is [i, p, panicked]; i % row_len panics when
\* row_len is 0.
ForShift(v, bd, row_len, rs, k, st) ==
    IF st.panicked \/ k > Len(Shifts(bd)) THEN st
    ELSE IF row_len = 0 THEN [st EXCEPT !.panicked = TRUE]
    ELSE ForShift(v, bd, row_len, rs, k + 1,
            [i |-> st.i + 1,
             p |-> IF st.i % row_len < rs
                   THEN Append(st.p, pixel(v, bd, Shifts(bd)[k]) * scaling_factor(bd))
                   ELSE st.p,
             panicked |-> FALSE])

RECURSIVE ForBuf(_, _, _, _, _, _)
\* for v in buf
ForBuf(b, bd, row_len, rs, n, st) ==
    IF st.panicked \/ n > Len(b) THEN st
    ELSE ForBuf(b, bd, row_len, rs, n + 1, ForShift(b[n], bd, row_len, rs, 1, st))

\* expand_bits(bit_depth, row_size, buf): the Vec returned, or a panic.  The two
\* u32 operations panic on overflow in a build with overflow checks and wrap in
\* one without.
expand_bits(bd, rs, b, checks) ==
    LET bit_width == WrappingMulU32(rs, bd)
        sk        == skip(bit_width, bd)
        row_len   == WrappingAddU32(rs, sk)
    IN  IF checks /\ MulOverflowsU32(rs, bd) THEN [state |-> "panicked", p |-> << >>]
        ELSE IF checks /\ AddOverflowsU32(rs, sk) THEN [state |-> "panicked", p |-> << >>]
        ELSE LET st == ForBuf(b, bd, row_len, rs, 1,
                              [i |-> 0, p |-> << >>, panicked |-> FALSE])
             IN  IF st.panicked THEN [state |-> "panicked", p |-> << >>]
                 ELSE [state |-> "returned", p |-> st.p]

BitDepths == {1, 2, 4}

\* The byte patterns of the packed buffers: three of the unit test's, and 00011011,
\* whose four 2-bit samples all differ.
ByteVals == {240, 192, 15, 27}

Bufs == UNION {[1..n -> ByteVals] : n \in 0..MaxBufLen}

\* The smallest row_size whose width in bits at bit depth 4 needs 33 bits.
WideRowSize == 2^30

BitsInputs ==
    {[bit_depth |-> bd, row_size |-> rs, buf |-> b] :
        bd \in BitDepths, rs \in 1..MaxRowSize, b \in Bufs}
    \cup {[bit_depth |-> 4, row_size |-> WideRowSize, buf |-> << >>]}

BitsInit ==
    /\ \E in \in BitsInputs :
          /\ bit_depth = in.bit_depth
          /\ row_size = in.row_size
          /\ buf = in.buf
    /\ overflow_checks \in BOOLEAN
    /\ eb_ret = [state |-> "called", p |-> << >>]

\* The call runs to its end.
ExpandBits ==
    /\ eb_ret.state = "called"
    /\ eb_ret' = expand_bits(bit_depth, row_size, buf, overflow_checks)
    /\ UNCHANGED <<bit_depth, row_size, buf, overflow_checks>>
    /\ UNCHANGED <<readerVars, packedVars, dimsVars>>

-----------------------------------------------------------------------------
(* expand_packed (src/src/utils/mod.rs). *)

\* let pixels = buf.len() / channels * bit_depth as usize
pixels(n, ch, bd) == (n \div ch) * bd

\* let extra = pixels % 8
extra(n, ch, bd) == pixels(n, ch, bd) % 8

\* let entries = pixels / 8 + match extra { 0 => 0, _ => 1 }
entries(n, ch, bd) ==
    (pixels(n, ch, bd) \div 8) + (IF extra(n, ch, bd) = 0 THEN 0 ELSE 1)

\* let mask = ((1u16 << bit_depth) - 1) as u8
packed_mask(bd) == (2^bd - 1) % 256

\* range_step(0, 8, bit_depth): 0, bit_depth, 2 * bit_depth, ... below 8
range_step(bd) == [k \in 1..((8 + bd - 1) \div bd) |-> (k - 1) * bd]

\* The bytes taken front to back.
ByteIndexForward(ents, m, per) == m \div per

\* (0..entries).rev(): the byte of the m-th item of the flattened iterator
\* (m from 0), each byte giving per items.
ByteIndex(ents, m, per) == ents - 1 - (m \div per)

\* let i = (0..entries).rev().flat_map(|idx| range_step(0, 8, bit_depth)
\*     .zip(repeat(idx))).skip(extra): the items (shift, i) that are left.
iter_i(n, ch, bd) ==
    LET per == Len(range_step(bd))
        left == (entries(n, ch, bd) * per) - extra(n, ch, bd)
    IN  [k \in 1..(IF left > 0 THEN left ELSE 0) |->
            LET m == (k - 1) + extra(n, ch, bd)
            IN  [shift |-> range_step(bd)[(m % per) + 1],
                 i     |-> ByteIndex(entries(n, ch, bd), m, per)]]

\* The slots taken front to back.
SlotOffsetForward(n, ch, k) == (k - 1) * ch

\* The k-th value of the range below.
SlotOffset(n, ch, k) == n - (k * ch)

\* let j = range_step(buf.len() as isize - channels, -channels, -channels):
\* every value above -channels, a negative last one included when channels does
\* not divide buf.len().
iter_j(n, ch) == [k \in 1..((n + ch - 1) \div ch) |-> SlotOffset(n, ch, k)]

\* i.zip(j): the loop ends with the shorter iterator.
Iterations(n, ch, bd) == Min(Len(iter_i(n, ch, bd)), Len(iter_j(n, ch)))

\* let pixel = (buf[i] & (mask << shift)) >> shift
packed_pixel(v, bd, shift) == Shr(BitAnd(v, ShlU8(packed_mask(bd), shift)), shift)

\* What func may write into a byte of its slot.
CallbackBytes == {0, 255}

PackedBufs == UNION {[1..n -> ByteVals] : n \in 0..MaxPackedLen}

PackedInit ==
    /\ packed \in PackedBufs
    /\ packed0 = packed
    /\ channels \in 1..MaxChannels
    /\ packed_depth \in BitDepths
    /\ calls = << >>
    /\ ep_pc = "loop"

\* One iteration of for ((shift, i), j) in i.zip(j): the pixel is read, the
\* slot buf[j..j + channels] is taken (a panic when j is negative, j as usize
\* then lying past the slice's end) and func is called with both.
ForPixel ==
    /\ ep_pc = "loop"
    /\ Len(calls) < Iterations(Len(packed), channels, packed_depth)
    /\ LET t  == Len(calls) + 1
           it == iter_i(Len(packed), channels, packed_depth)[t]
           j  == iter_j(Len(packed), channels)[t]
           px == packed_pixel(packed[it.i + 1], packed_depth, it.shift)
       IN  IF j < 0
           THEN /\ ep_pc' = "panicked"
                /\ UNCHANGED <<packed, calls>>
           ELSE /\ \E out \in [1..channels -> CallbackBytes] :
                      packed' = [x \in 1..Len(packed) |->
                                    IF (x - 1) \in j..(j + channels - 1)
                                    THEN out[x - j]
                                    ELSE packed[x]]
                /\ calls' = Append(calls, [pixel |-> px, i |-> it.i, shift |-> it.shift,
                                           j |-> j, byte |-> packed[it.i + 1]])
                /\ UNCHANGED ep_pc
    /\ UNCHANGED <<channels, packed_depth, packed0>>
    /\ UNCHANGED <<readerVars, bitsVars, dimsVars>>

\* The zipped iterator is exhausted and expand_packed returns.
ExpandPackedReturn ==
    /\ ep_pc = "loop"
    /\ Len(calls) = Iterations(Len(packed), channels, packed_depth)
    /\ ep_pc' = "returned"
    /\ UNCHANGED <<packed, channels, packed_depth, packed0, calls>>
    /\ UNCHANGED <<readerVars, bitsVars, dimsVars>>

-----------------------------------------------------------------------------
(* check_dimension_overflow (src/src/utils/mod.rs).  A u32 is four byte     *)
(* limbs and a u64 eight, least significant first, so that no value of the  *)
(* model leaves the range of the checker's integers.                        *)

Byte == 2^8

\* x as u64: a u32 zero-extended
AsU64(x) == x \o <<0, 0, 0, 0>>

\* The sum of the limb products a[i] * b[k + 1 - i] for i up to n.
RECURSIVE ColumnSum(_, _, _, _)
ColumnSum(a, b, k, n) ==
    IF n = 0
    THEN 0
    ELSE (IF (k + 1 - n) \in 1..Len(b) THEN a[n] * b[k + 1 - n] ELSE 0)
         + ColumnSum(a, b, k, n - 1)

RECURSIVE MulFrom(_, _, _, _)
MulFrom(a, b, k, carry) ==
    IF k > Len(a) + Len(b)
    THEN << >>
    ELSE LET t == ColumnSum(a, b, k, Len(a)) + carry
         IN  <<t % Byte>> \o MulFrom(a, b, k + 1, t \div Byte)

\* The exact product of two limb sequences, Len(a) + Len(b) limbs long.
MulLimbs(a, b) == MulFrom(a, b, 1, 0)

\* a * b on u64: the low eight limbs of the product, and whether the rest is
\* lost.
U64Mul(a, b) ==
    LET full == MulLimbs(a, b)
    IN  [value      |-> SubSeq(full, 1, 8),
         overflowed |-> \E k \in 9..Len(full) : full[k] # 0]

\* std::u64::MAX
U64_MAX == [k \in 1..8 |-> Byte - 1]

\* The quotient limbs k down to 1 of x / d for 0 < d < 2^8, by long division
\* with the remainder rem carried down.
RECURSIVE DivFrom(_, _, _, _)
DivFrom(x, d, k, rem) ==
    IF k = 0
    THEN << >>
    ELSE LET t == (rem * Byte) + x[k]
         IN  DivFrom(x, d, k - 1, t % d) \o <<t \div d>>

\* x / (bytes_per_pixel as u64)
DivU8(x, d) == DivFrom(x, d, Len(x), 0)

RECURSIVE GeFrom(_, _, _)
GeFrom(a, b, k) ==
    IF k = 0 THEN TRUE
    ELSE IF a[k] # b[k] THEN a[k] > b[k]
    ELSE GeFrom(a, b, k - 1)

\* a >= b
GeLimbs(a, b) == GeFrom(a, b, Len(a))

RECURSIVE GtFrom(_, _, _)
GtFrom(a, b, k) ==
    IF k = 0 THEN FALSE
    ELSE IF a[k] # b[k] THEN a[k] > b[k]
    ELSE GtFrom(a, b, k - 1)

\* a > b on two u64
GtLimbs(a, b) == GtFrom(a, b, Len(a))

\* width as u64 * height as u64 > std::u64::MAX / bytes_per_pixel as u64;
\* an integer division by zero panics in every build.
check_dimension_overflow(w, h, bpp) ==
    IF bpp = 0
    THEN [state |-> "panicked", value |-> FALSE, wrapped |-> FALSE]
    ELSE LET product == U64Mul(AsU64(w), AsU64(h))
         IN  [state   |-> "returned",
              value   |-> GtLimbs(product.value, DivU8(U64_MAX, bpp)),
              wrapped |-> product.overflowed]

\* Widths and heights: the ends of u32, and factors of 2^64 - 1 and of its
\* neighbours.
\*   <<0, 0, 0, 0>>         0
\*   <<1, 0, 0, 0>>         1
\*   <<0, 0, 1, 0>>         2^16
\*   <<0, 0, 0, 128>>       2^31
\*   <<255, 255, 255, 255>> 2^32 - 1
\*   <<129, 2, 129, 2>>     42009217
\*   <<129, 190, 163, 102>> 1722007169 = 257 * 6700417
\*   <<130, 190, 163, 102>> 1722007170
\*   <<213, 212, 213, 212>> 3570783445
DimValues ==
    { <<0, 0, 0, 0>>,
      <<1, 0, 0, 0>>,
      <<0, 0, 1, 0>>,
      <<0, 0, 0, 128>>,
      <<255, 255, 255, 255>>,
      <<129, 2, 129, 2>>,
      <<129, 190, 163, 102>>,
      <<130, 190, 163, 102>>,
      <<213, 212, 213, 212>> }

\* bytes_per_pixel: the ends of u8 and the divisors 3 and 255 of 2^64 - 1.
BytesPerPixel == {0, 1, 2, 3, 4, 255}

DimsInit ==
    /\ width \in DimValues
    /\ height \in DimValues
    /\ bytes_per_pixel \in BytesPerPixel
    /\ cdo_ret = [state |-> "called", value |-> FALSE, wrapped |-> FALSE]

\* The call runs to its end.
CheckDimensionOverflow ==
    /\ cdo_ret.state = "called"
    /\ cdo_ret' = check_dimension_overflow(width, height, bytes_per_pixel)
    /\ UNCHANGED <<width, height, bytes_per_pixel>>
    /\ UNCHANGED <<readerVars, bitsVars, packedVars>>
-----------------------------------------------------------------------------
(* The specifications. *)

\* No expand_bits call is under way.
BitsParked ==
    /\ bit_depth = 1
    /\ row_size = 1
    /\ buf = << >>
    /\ overflow_checks = FALSE
    /\ eb_ret = [state |-> "idle", p |-> << >>]

\* No reader exists.
ReaderParked ==
    /\ inner_data = << >>
    /\ inner_pos = 0
    /\ format = "None"
    /\ limits = LimitsDefault
    /\ pre = [pos |-> 0, format |-> "None", limits |-> LimitsDefault]
    /\ pc = "gone"
    /\ cur = 0
    /\ start = << >>
    /\ len = 0
    /\ last = [op |-> "none", res |-> "none", at |-> "none"]
    /\ decoderCall = NoCall
    /\ ioDone = FALSE
    /\ unlimitedAsked = FALSE
    /\ consumed = 0
    /\ usedAfter = FALSE
    /\ chain = NoChain

\* No expand_packed call is under way.
PackedParked ==
    /\ packed = << >>
    /\ packed0 = << >>
    /\ channels = 1
    /\ packed_depth = 1
    /\ calls = << >>
    /\ ep_pc = "idle"

\* No check_dimension_overflow call is under way.
DimsParked ==
    /\ width = <<0, 0, 0, 0>>
    /\ height = <<0, 0, 0, 0>>
    /\ bytes_per_pixel = 1
    /\ cdo_ret = [state |-> "idle", value |-> FALSE, wrapped |-> FALSE]

Init == ReaderInit /\ BitsParked /\ PackedParked /\ DimsParked

Next ==
    \/ Format
    \/ SetFormat
    \/ ClearFormat
    \/ NoLimits
    \/ Limits
    \/ IntoInner
    \/ WithGuessedFormat
    \/ GuessSeekCur
    \/ GuessReadExact
    \/ GuessSeekBack
    \/ CancelGuess
    \/ IntoDimensions
    \/ Decode

Spec == Init /\ [][Next]_vars

InitBits == ReaderParked /\ BitsInit /\ PackedParked /\ DimsParked

NextBits == ExpandBits

SpecBits == InitBits /\ [][NextBits]_vars

InitPacked == ReaderParked /\ BitsParked /\ PackedInit /\ DimsParked

NextPacked ==
    \/ ForPixel
    \/ ExpandPackedReturn

SpecPacked == InitPacked /\ [][NextPacked]_vars

InitDims == ReaderParked /\ BitsParked /\ PackedParked /\ DimsInit

NextDims == CheckDimensionOverflow

SpecDims == InitDims /\ [][NextDims]_vars

-----------------------------------------------------------------------------
(* Properties of the reader, checked under Spec. *)

SniffReturnedOk == last.op = "with_guessed_format" /\ last.res = "Ok"

SniffReturnedErr == last.op = "with_guessed_format" /\ last.res = "IoError"

TerminalReturned == last.op \in {"decode", "into_dimensions"}

\* The bytes a sniff called at position pos has in front of it: SniffLen of
\* them, or those left when the stream is shorter.
LeadingBytes(pos) ==
    SubSeq(inner_data, pos + 1, Min(pos + SniffLen, Len(inner_data)))

\* C1: whenever with_guessed_format has returned Ok, with or without a signature
\* match, the source's read position is the position it had just before the call.
C1_PositionRestoredOnOk == SniffReturnedOk => inner_pos = pre.pos

\* A sniff started past offset 0 returned Ok and found a format.
C1_Witness ==
    /\ SniffReturnedOk
    /\ pre.pos > 0
    /\ ioDone
    /\ format # pre.format

\* C2: after with_guessed_format has returned Ok the format is the guess made
\* from the leading bytes when they match a signature, and the format held
\* before the call when they match none; the limits are those held before.
C2_FormatAfterGuess ==
    SniffReturnedOk =>
        LET g == guess_format_impl(LeadingBytes(pre.pos))
        IN  /\ format = (IF g # "None" THEN g ELSE pre.format)
            /\ limits = pre.limits

\* A set format was replaced by a different guessed one, under custom limits.
C2_Witness ==
    /\ SniffReturnedOk
    /\ pre.format \in Formats
    /\ format \in Formats
    /\ format # pre.format
    /\ limits = "strict"

\* C3: with_guessed_format called with fewer than 16 bytes left in the stream,
\* on a source none of whose operations fails, and run to its end, returns Ok
\* with the format guessed from the shorter prefix and the read position restored.
C3_ShortStreamSniffSucceeds ==
    ( /\ last.op = "with_guessed_format"
      /\ last.res \notin {"pending", "cancelled"}
      /\ Len(inner_data) - pre.pos < SniffLen
      /\ last.at \notin {"seek_cur", "read_exact:io", "seek_back"} )
    => /\ last.res = "Ok"
       /\ inner_pos = pre.pos
       /\ format = GuessedFormat(guess_format_impl(LeadingBytes(pre.pos)), pre.format)

\* C4: when with_guessed_format has returned Ok twice in a row, the format after
\* the second call is the format after the first, and the read position is the
\* position before the first.
C4_SniffIdempotent ==
    (SniffReturnedOk /\ chain.n = 2) =>
        /\ format = chain.fmt1
        /\ inner_pos = chain.pos0

\* Two sniffs in a row, started past offset 0, both found a format.
C4_Witness ==
    /\ SniffReturnedOk
    /\ chain.n = 2
    /\ chain.pos0 > 0
    /\ format \in Formats

\* C5: decode or into_dimensions called with no format determined returns an
\* Unsupported error with the format hint Unknown, without touching the source
\* and without invoking a decoder.
C5_UnknownFormatRefused ==
    (TerminalReturned /\ pre.format = "None") =>
        /\ last.res = "Unsupported"
        /\ last.at = "Unknown"
        /\ ~ioDone
        /\ inner_pos = pre.pos
        /\ decoderCall = NoCall

\* into_dimensions was refused on a reader with no format.
C5_Witness ==
    /\ last.op = "into_dimensions"
    /\ pre.format = "None"
    /\ last.res = "Unsupported"

\* C6: decode and into_dimensions on a reader with format f both invoke the
\* decoder of format f with the source and the reader's current limits, and
\* return the decoder's answer unchanged.
C6_DispatchWithLimits ==
    (TerminalReturned /\ pre.format # "None") =>
        /\ decoderCall.fn # "none"
        /\ decoderCall.format = pre.format
        /\ decoderCall.pos = pre.pos
        /\ decoderCall.limits = pre.limits
        /\ last.res = decoderCall.ret

\* C7: with_guessed_format returns an error only when a seek on the source
\* failed; the read step never makes it fail.
C7_OnlySeekFails ==
    SniffReturnedErr => last.at \in {"seek_cur", "seek_back"}

\* C8: at most one consuming operation (decode, into_dimensions, into_inner) is
\* ever executed on a reader, nothing is executed on it afterwards, and the
\* reader is gone from then on, whether the operation succeeded or failed.
C8_ConsumedOnce ==
    /\ consumed <= 1
    /\ ~usedAfter
    /\ (consumed = 1 => pc = "gone")

\* A terminal operation that failed for want of a format consumed the reader.
C8_Witness ==
    /\ consumed = 1
    /\ last.op = "decode"
    /\ last.res = "Unsupported"
    /\ pc = "gone"

\* C9: the limits are the no-limits policy only if no_limits() or limits() with
\* the unlimited value was called before; the constructors install the default
\* limits, and set_format, clear_format and with_guessed_format leave the limits
\* as they were.
C9_NoLimitsOnlyOnRequest ==
    /\ (limits = LimitsNoLimits => unlimitedAsked)
    /\ (last.op = "construct" => limits = LimitsDefault)
    /\ (last.op \in {"set_format", "clear_format", "with_guessed_format"}
            => limits = pre.limits)

\* The limits were switched off and stayed off through a sniff.
C9_Witness ==
    /\ limits = LimitsNoLimits
    /\ unlimitedAsked
    /\ SniffReturnedOk

\* A step that ends one of the operations named, called on a reader held by
\* the caller.
StepOf(ops) == pc = "idle" /\ last'.op \in ops

\* C17: set_format, clear_format, limits and no_limits can be called in every
\* state in which the caller holds the reader; none touches the source, whose
\* contents and read position stay as they were; set_format and clear_format
\* leave the limits, limits and no_limits leave the format.
C17_MutatorsFrame ==
    /\ [](pc = "idle" =>
            (ENABLED SetFormat /\ ENABLED ClearFormat /\ ENABLED Limits /\ ENABLED NoLimits))
    /\ [][ /\ StepOf({"set_format", "clear_format", "limits", "no_limits"}) =>
                /\ inner_data' = inner_data
                /\ inner_pos' = inner_pos
                /\ ~ioDone'
                /\ pc' = "idle"
           /\ StepOf({"set_format", "clear_format"}) => limits' = limits
           /\ StepOf({"limits", "no_limits"}) => format' = format ]_vars

\* clear_format ran on a reader with a format, custom limits and a source read
\* from past its start.
C17_Witness ==
    /\ last.op = "clear_format"
    /\ pre.format \in Formats
    /\ limits = "strict"
    /\ inner_pos > 0
    /\ pc = "idle"

\* C18: when the position query, the read or the seek back fails, the call
\* returns the source's I/O error, the reader is not handed back, and its format
\* and limits were never changed, also when the bytes read match a signature.
C18_FailedSniffAppliesNothing ==
    (last.op = "with_guessed_format" /\ last.res \notin {"pending", "Ok", "cancelled"}) =>
        /\ last.res = "IoError"
        /\ pc = "gone"
        /\ format = pre.format
        /\ limits = pre.limits

\* The seek back failed after a read that matched another format's signature.
C18_Witness ==
    /\ SniffReturnedErr
    /\ last.at = "seek_back"
    /\ guess_format_impl(LeadingBytes(pre.pos)) \notin {"None", pre.format}

\* C19: once with_guessed_format was cancelled at one of its awaits, the caller
\* holds no reader; so a reader held by the caller after a sniff has its source
\* at the position before the sniff and was returned by a completed call.
C19_CancelledSniffLeavesNoReader ==
    /\ (last.res = "cancelled" => pc = "gone")
    /\ ((pc = "idle" /\ last.op = "with_guessed_format") =>
            (last.res = "Ok" /\ inner_pos = pre.pos))

\* The sniff was cancelled after the read, with the source 16 bytes further on.
C19_Witness ==
    /\ last.op = "with_guessed_format"
    /\ last.res = "cancelled"
    /\ last.at = "seek_back"
    /\ inner_pos # pre.pos

-----------------------------------------------------------------------------
(* Properties of expand_bits, checked under SpecBits. *)

\* Samples stored in one byte.
SamplesPerByte(bd) == 8 \div bd

\* ceil(row_size * bit_depth / 8): the bytes of one packed row.
RowBytes(bd, rs) == (rs + SamplesPerByte(bd) - 1) \div SamplesPerByte(bd)

\* The buffer is a whole number of rows.
WholeRows == Len(buf) % RowBytes(bit_depth, row_size) = 0

NumberOfRows == Len(buf) \div RowBytes(bit_depth, row_size)

\* The k-th sample (from 0) of row r (from 0), most significant sample first.
SampleAt(r, k) ==
    LET byte == buf[(r * RowBytes(bit_depth, row_size)) + (k \div SamplesPerByte(bit_depth)) + 1]
        down == 8 - (bit_depth * ((k % SamplesPerByte(bit_depth)) + 1))
    IN  (byte \div 2^down) % 2^bit_depth

\* One byte per logical sample, row after row, rescaled to 0..255.
ExpectedExpansion ==
    [j \in 1..(row_size * NumberOfRows) |->
        SampleAt((j - 1) \div row_size, (j - 1) % row_size)
            * (255 \div (2^bit_depth - 1))]

\* row_size * bit_depth and row_size + padding samples both fit in a u32.
RowFitsU32 ==
    /\ ~MulOverflowsU32(row_size, bit_depth)
    /\ ~AddOverflowsU32(row_size,
            RowBytes(bit_depth, row_size) * SamplesPerByte(bit_depth) - row_size)

\* C10 (as amended): for bit_depth in {1,2,4}, a row_size >= 1 whose width in
\* bits and whose padded width in samples fit in 32 bits, and a buffer that is a
\* whole number of rows, expand_bits returns row_size * rows bytes, byte
\* r*row_size + k being sample k of row r times 255/(2^bit_depth - 1).
C10_ExpandBitsExact ==
    (eb_ret.state # "called" /\ WholeRows /\ RowFitsU32) =>
        /\ eb_ret.state = "returned"
        /\ eb_ret.p = ExpectedExpansion

\* Two rows of five 2-bit samples, three padding samples each, were expanded.
C10_Witness ==
    /\ eb_ret.state = "returned"
    /\ bit_depth = 2
    /\ row_size = 5
    /\ Len(buf) = 4
    /\ Len(eb_ret.p) = 10

\* C10 (as stated): the same for every row_size >= 1.
C10_ExpandBitsEveryRowSize ==
    (eb_ret.state # "called" /\ WholeRows) =>
        /\ eb_ret.state = "returned"
        /\ eb_ret.p = ExpectedExpansion

\* The samples of a packed row that expand_bits left out of its output.
SkippedPerRow ==
    ((Len(buf) * SamplesPerByte(bit_depth)) - Len(eb_ret.p)) \div NumberOfRows

\* expand_bits returned on a buffer of at least one whole row.
ExpandedRows(bd, rs) ==
    /\ eb_ret.state = "returned"
    /\ bit_depth = bd
    /\ row_size = rs
    /\ WholeRows
    /\ NumberOfRows >= 1

\* C11 (as amended): expand_bits skips 6 samples at the end of each row for
\* bit_depth 1 and row_size 10, 3 for bit_depth 2 and row_size 5, none for
\* bit_depth 2 and row_size 4, and 1 for bit_depth 4 and row_size 1.
C11_PaddingSkipped ==
    /\ (ExpandedRows(1, 10) => SkippedPerRow = 6)
    /\ (ExpandedRows(2, 5) => SkippedPerRow = 3)
    /\ (ExpandedRows(2, 4) => SkippedPerRow = 0)
    /\ (ExpandedRows(4, 1) => SkippedPerRow = 1)

\* Two 16-sample rows of ten 1-bit samples were expanded.
C11_Witness ==
    /\ ExpandedRows(1, 10)
    /\ NumberOfRows = 2
    /\ Len(eb_ret.p) = 20

\* C11 (as stated): 2 samples are skipped for bit_depth 1 and row_size 10.
C11_PaddingSkippedAsStated ==
    /\ (ExpandedRows(1, 10) => SkippedPerRow = 2)
    /\ (ExpandedRows(2, 5) => SkippedPerRow = 3)
    /\ (ExpandedRows(2, 4) => SkippedPerRow = 0)
    /\ (ExpandedRows(4, 1) => SkippedPerRow = 1)

-----------------------------------------------------------------------------
(* Properties of expand_packed, checked under SpecPacked. *)

\* The iterations of the running call, the one that panics included.
Steps == Iterations(Len(packed0), channels, packed_depth)

\* The bytes of the slot handed to func in its t-th invocation.
Slot(t) == calls[t].j .. (calls[t].j + channels - 1)

\* C12: the slot handed to func at a step holds no byte that a later step reads
\* as packed input, so every byte from which a sample is taken is still the
\* byte of the buffer as it was passed in, whatever func has written.
C12_SlotsHoldNoUnreadInput ==
    \A t \in 1..Len(calls) :
        /\ calls[t].byte = packed0[calls[t].i + 1]
        /\ \A u \in (t + 1)..Steps :
              iter_i(Len(packed0), channels, packed_depth)[u].i \notin Slot(t)

\* The call returned after func wrote over a byte that an earlier or the same
\* step had read a sample from.
C12_Witness ==
    /\ ep_pc = "returned"
    /\ Len(calls) >= 3
    /\ \E t \in 1..Len(calls) : packed[calls[t].i + 1] # packed0[calls[t].i + 1]

\* The k-th sample (k from 0) packed in buffer b at bd bits a sample, the most
\* significant bits of a byte first.
PackedSample(b, k, bd) ==
    LET per == 8 \div bd
    IN  (b[(k \div per) + 1] \div 2^(8 - (bd * ((k % per) + 1)))) % 2^bd

\* C13: a call on a buffer whose length is a multiple of channels invokes func
\* once for each of the buf.len() / channels pixels, the last pixel first, and
\* for pixel k with the k-th packed sample and the slot starting at k * channels.
C13_EveryPixelExpanded ==
    (ep_pc = "returned" /\ Len(packed0) % channels = 0) =>
        LET n == Len(packed0) \div channels
        IN  /\ Len(calls) = n
            /\ \A t \in 1..Len(calls) :
                  /\ calls[t].j = (n - t) * channels
                  /\ calls[t].pixel = PackedSample(packed0, n - t, packed_depth)

\* C14: the first invocation of func gets the slot at buf.len() - channels,
\* every later one the slot channels bytes below its predecessor's, and the
\* index of the byte read never goes up from one invocation to the next.
C14_ReverseOrder ==
    \A t \in 1..Len(calls) :
        /\ calls[t].j = Len(packed0) - (t * channels)
        /\ t > 1 => /\ calls[t].j = calls[t - 1].j - channels
                    /\ calls[t].i <= calls[t - 1].i

\* A call of several invocations that went from one packed byte down to another.
C14_Witness ==
    /\ ep_pc = "returned"
    /\ Len(calls) >= 3
    /\ calls[Len(calls)].i < calls[1].i
    /\ calls[Len(calls)].j = 0

-----------------------------------------------------------------------------
(* Properties of check_dimension_overflow, checked under SpecDims. *)

\* width * height * bytes_per_pixel, exact: nine limbs.
ExactBytes == MulLimbs(MulLimbs(width, height), <<bytes_per_pixel>>)

\* A limb sequence above 2^64 - 1.
ExceedsU64(x) == \E k \in 9..Len(x) : x[k] # 0

\* C15: for bytes_per_pixel >= 1 the call returns, its result is true exactly
\* when the exact product width * height * bytes_per_pixel is above 2^64 - 1,
\* and the 64-bit product of width and height has lost nothing.
C15_ExactOverflowCheck ==
    (cdo_ret.state # "called" /\ bytes_per_pixel >= 1) =>
        /\ cdo_ret.state = "returned"
        /\ cdo_ret.value = ExceedsU64(ExactBytes)
        /\ ~cdo_ret.wrapped

\* The call returned false for a product of exactly 2^64 - 1.
C15_Witness ==
    /\ cdo_ret.state = "returned"
    /\ bytes_per_pixel > 1
    /\ ExactBytes = U64_MAX \o <<0>>
    /\ cdo_ret.value = FALSE

\* C16: check_dimension_overflow never panics, bytes_per_pixel = 0 included.
C16_NeverPanics == cdo_ret.state # "panicked"

=========================================================================
